---- MODULE Spec2Model ----
(***************************************************************************)
(* Model of PartB_Automation/maps_route_instructions.py: the three        *)
(* multi-locator wait helpers, try_click_optional, the instruction filter, *)
(* the two exporters and the orchestration in main() with its exception    *)
(* handlers and its finally block.  The browser is the environment: on     *)
(* every poll tick it shows an arbitrary page, and every driver call may   *)
(* fail with a WebDriverException.                                         *)
(***************************************************************************)
EXTENDS Integers, Sequences, FiniteSets, TLC

VARIABLES
    pc,          \* position of main()
    driver,      \* the local `driver` of main(): "None" or "WebDriver"
    session,     \* the browser session: "none", "open", "closed"
    quits,       \* number of driver.quit() calls made
    raised,      \* exception that reached main's handlers: "none", "Timeout", "WebDriver", "Other"
    handled,     \* the except clause that ran: "none", "TimeoutException", "WebDriverException", "Exception"
    retval,      \* value of main()'s return statement, -1 while none was executed
    exitcode,    \* process exit code given to sys.exit, -1 while the process runs
    wcall,       \* the current (or latest) wait: its call site, helper, locators, timeout
    wstate,      \* "idle", "polling", "sleeping", "matched", "timedout", "error"
    elapsed,     \* time since the wait began, read by WebDriverWait.until
    page,        \* the page as the latest poll tick saw it
    result,      \* value of _locate on the latest tick (<<>> is falsy)
    tried,       \* number of candidates queried with find_elements on the latest tick
    click,       \* the click issued by the latest statement, <<>> if none
    tcoRet,      \* return value of the latest try_click_optional: "none", "True", "False"
    stepWait,    \* outcome of the step wait: "none", "found", "timedout"
    step_texts,  \* element.text of the step elements, in order
    instructions,\* the captured instructions
    excel,       \* <<>> or <<the workbook saved>>
    screenshot,  \* <<>> or <<the screenshot saved>>
    console      \* the lines printed so far

vars == <<pc, driver, session, quits, raised, handled, retval, exitcode, wcall, wstate,
          elapsed, page, result, tried, click, tcoRet, stepWait, step_texts,
          instructions, excel, screenshot, console>>

-----------------------------------------------------------------------------
(* Bounds of the model *)

\* Elements a page can hold (ids 1..MaxElems, in document order).
MaxElems == 2

\* Wall-clock time between two poll ticks of WebDriverWait.until.
PollStep == 10

\* Longest list of step elements the page shows.
MaxSteps == 2

\* Longest candidate list a helper is called with on its own.
MaxLocators == 3

-----------------------------------------------------------------------------
(* Timeouts passed by main() *)

ConsentTimeout == 5
DirectionsTimeout == 25
StartInputTimeout == 25
DestInputTimeout == 25
UrlTimeout == 30
RouteCardsTimeout == 30
StepsToggleTimeout == 5
StepWaitTimeout == 60

\* timeout=20, the default of the three wait helpers.
DefaultTimeout == 20

\* The call sites of main() that wait with a candidate list.
LocatorSites == {"consent", "directions", "start_input", "dest_input",
                 "route_cards", "steps_toggle"}

WaitSites == LocatorSites \cup {"url", "step_wait"}

\* Number of locator candidates at each call site.
NCands(site) ==
    CASE site = "consent" -> 2
      [] site = "directions" -> 3
      [] site = "start_input" -> 4
      [] site = "dest_input" -> 4
      [] site = "route_cards" -> 1
      [] site = "steps_toggle" -> 4
      [] OTHER -> 0

\* The helper each call site uses.
Helper(site) ==
    CASE site \in {"consent", "directions", "steps_toggle"} -> "clickable"
      [] site \in {"start_input", "dest_input"} -> "first"
      [] site = "route_cards" -> "all"
      [] OTHER -> "condition"

Timeout(site) ==
    CASE site = "consent" -> ConsentTimeout
      [] site = "directions" -> DirectionsTimeout
      [] site = "start_input" -> StartInputTimeout
      [] site = "dest_input" -> DestInputTimeout
      [] site = "url" -> UrlTimeout
      [] site = "route_cards" -> RouteCardsTimeout
      [] site = "steps_toggle" -> StepsToggleTimeout
      [] site = "step_wait" -> StepWaitTimeout
      [] OTHER -> 0

\* The sites reached through try_click_optional.
Optional(site) == site \in {"consent", "steps_toggle"}

\* The wait a call site of main() starts.
Call(site) ==
    [site |-> site, helper |-> Helper(site), locators |-> NCands(site),
     timeout |-> Timeout(site)]

NoCall == [site |-> "none", helper |-> "none", locators |-> 0, timeout |-> 0]

-----------------------------------------------------------------------------
(* The page *)

Elems == 1..MaxElems

\* find_elements returns the matching elements in document order.
RECURSIVE SortedSeq(_)
SortedSeq(S) ==
    IF S = {} THEN <<>>
    ELSE LET m == CHOOSE x \in S : \A y \in S : x <= y
         IN <<m>> \o SortedSeq(S \ {m})

MatchLists == {SortedSeq(S) : S \in SUBSET Elems}

EmptyPage == [matches |-> <<>>, displayed |-> {}, enabled |-> {}]

\* The pages a poll tick can see at a call site.  Only the clickable helper
\* reads is_displayed and is_enabled.
Pages(helper, locators) ==
    IF helper = "clickable"
    THEN [matches : [1..locators -> MatchLists],
          displayed : SUBSET Elems, enabled : SUBSET Elems]
    ELSE [matches : [1..locators -> MatchLists],
          displayed : {Elems}, enabled : {Elems}]

-----------------------------------------------------------------------------
(* The _locate callbacks of the three wait helpers.  Each returns the value *)
(* handed to WebDriverWait.until (<<>> stands for False) and the number of  *)
(* candidates it queried with find_elements.                                *)

RECURSIVE LocateFirstFrom(_, _, _)
LocateFirstFrom(pg, locators, i) ==
    IF i > locators THEN [value |-> <<>>, tried |-> locators]
    ELSE LET elements == pg.matches[i]
         IN IF elements # <<>>
            THEN [value |-> <<elements[1]>>, tried |-> i]
            ELSE LocateFirstFrom(pg, locators, i + 1)

wait_for_any_element_locate(pg, locators) == LocateFirstFrom(pg, locators, 1)

\* The inner loop of the clickable helper: the first element of `elements`
\* that is displayed and enabled.
RECURSIVE FirstClickable(_, _, _)
FirstClickable(pg, elements, j) ==
    IF j > Len(elements) THEN <<>>
    ELSE IF elements[j] \in pg.displayed /\ elements[j] \in pg.enabled
         THEN <<elements[j]>>
         ELSE FirstClickable(pg, elements, j + 1)

RECURSIVE LocateDisplayedFrom(_, _, _)
LocateDisplayedFrom(pg, locators, i) ==
    IF i > locators THEN [value |-> <<>>, tried |-> locators]
    ELSE LET shown == SelectSeq(pg.matches[i], LAMBDA e : e \in pg.displayed)
         IN IF shown # <<>>
            THEN [value |-> <<shown[1]>>, tried |-> i]
            ELSE LocateDisplayedFrom(pg, locators, i + 1)

wait_for_any_clickable_element_locate_DisplayedOnly(pg, locators) ==
    LocateDisplayedFrom(pg, locators, 1)

wait_for_any_clickable_element_locate_FirstMatchOnly(pg, locators) ==
    LET first == LocateFirstFrom(pg, locators, 1)
    IN IF first.value = <<>> THEN first
       ELSE [value |-> FirstClickable(pg, pg.matches[first.tried], 1),
             tried |-> first.tried]

RECURSIVE LocateClickableFrom(_, _, _)
LocateClickableFrom(pg, locators, i) ==
    IF i > locators THEN [value |-> <<>>, tried |-> locators]
    ELSE LET element == FirstClickable(pg, pg.matches[i], 1)
         IN IF element # <<>>
            THEN [value |-> element, tried |-> i]
            ELSE LocateClickableFrom(pg, locators, i + 1)

wait_for_any_clickable_element_locate(pg, locators) ==
    LocateClickableFrom(pg, locators, 1)

RECURSIVE MergeFrom(_, _, _)
MergeFrom(pg, locators, i) ==
    IF i > locators THEN <<>>
    ELSE pg.matches[i] \o MergeFrom(pg, locators, i + 1)

wait_for_any_elements_locate_Merged(pg, locators) ==
    [value |-> MergeFrom(pg, locators, 1), tried |-> locators]

RECURSIVE LocateAllFrom(_, _, _)
LocateAllFrom(pg, locators, i) ==
    IF i > locators THEN [value |-> <<>>, tried |-> locators]
    ELSE LET elements == pg.matches[i]
         IN IF elements # <<>>
            THEN [value |-> elements, tried |-> i]
            ELSE LocateAllFrom(pg, locators, i + 1)

wait_for_any_elements_locate(pg, locators) == LocateAllFrom(pg, locators, 1)

-----------------------------------------------------------------------------
(* Step texts.  A text is a sequence of characters, so that strip() and   *)
(* lower() are computed and not assumed.                                   *)

TextEmpty ==
    <<>>

TextBlank ==
    <<" ", " ">>

TextDirections ==
    <<"D", "i", "r", "e", "c", "t", "i", "o", "n", "s">>

TextTurnLeft ==
    <<"T", "u", "r", "n", " ", "l", "e", "f", "t">>

TextSteps ==
    <<"s", "t", "e", "p", "s">>

TextContinue ==
    <<"C", "o", "n", "t", "i", "n", "u", "e", " ", "s", "t", "r", "a", "i", "g", "h", "t">>

TextStepsPadded ==
    <<" ", "S", "T", "E", "P", "S", "\n">>

TextTurnPadded ==
    <<"\t", "T", "u", "r", "n", " ", "l", "e", "f", "t", " ">>

TextStepsAhead ==
    <<"S", "t", "e", "p", "s", " ", "2">>

\* The labels the filter drops (line 193).
LabelDirections ==
    <<"d", "i", "r", "e", "c", "t", "i", "o", "n", "s">>

LabelSteps ==
    <<"s", "t", "e", "p", "s">>

Texts == {TextEmpty, TextBlank, TextDirections, TextTurnLeft, TextSteps, TextContinue,
          TextStepsPadded, TextTurnPadded, TextStepsAhead}

\* The step texts of the specification's filtering example.
ExampleTexts ==
    <<TextEmpty, TextBlank, TextDirections, TextTurnLeft, TextSteps, TextContinue>>

\* What find_elements and element.text can deliver for the step elements.
StepInputs ==
    UNION {[1..n -> Texts] : n \in 0..MaxSteps} \cup {ExampleTexts}

Whitespace == {" ", "\t", "\n", "\r"}

UpperCase ==
    <<"A", "B", "C", "D", "E", "F", "G", "H", "I", "J", "K", "L", "M",
      "N", "O", "P", "Q", "R", "S", "T", "U", "V", "W", "X", "Y", "Z">>

LowerCase ==
    <<"a", "b", "c", "d", "e", "f", "g", "h", "i", "j", "k", "l", "m",
      "n", "o", "p", "q", "r", "s", "t", "u", "v", "w", "x", "y", "z">>

\* str.strip(): drop leading, then trailing whitespace.
RECURSIVE lstrip(_)
lstrip(t) ==
    IF t # <<>> /\ Head(t) \in Whitespace THEN lstrip(Tail(t)) ELSE t

RECURSIVE rstrip(_)
rstrip(t) ==
    IF t # <<>> /\ t[Len(t)] \in Whitespace
    THEN rstrip(SubSeq(t, 1, Len(t) - 1))
    ELSE t

strip(t) == rstrip(lstrip(t))

\* str.lower()
lower(t) ==
    [i \in 1..Len(t) |->
        IF \E k \in 1..Len(UpperCase) : UpperCase[k] = t[i]
        THEN LowerCase[CHOOSE k \in 1..Len(UpperCase) : UpperCase[k] = t[i]]
        ELSE t[i]]

FilterStep_CaseSensitive(acc, raw) ==
    LET text == strip(raw)
    IN IF text = <<>> THEN acc
       ELSE IF text \in {LabelDirections, LabelSteps} THEN acc
       ELSE Append(acc, text)

\* One iteration of the loop of lines 189-195: `acc` with the text of one
\* element appended, unless a `continue` skips it.
FilterStep(acc, raw) ==
    LET text == strip(raw)
    IN IF text = <<>> THEN acc
       ELSE IF lower(text) \in {LabelDirections, LabelSteps} THEN acc
       ELSE Append(acc, text)

RECURSIVE FilterFrom(_, _, _)
FilterFrom(texts, i, acc) ==
    IF i > Len(texts) THEN acc
    ELSE FilterFrom(texts, i + 1, FilterStep(acc, texts[i]))

\* instructions after the loop over step_elements.
CaptureInstructions(texts) == FilterFrom(texts, 1, <<>>)

\* save_instructions_to_excel: the workbook written to the file.
save_instructions_to_excel(instr) ==
    [title |-> "Driving Instructions",
     header |-> <<"Step Number", "Instruction Text">>,
     rows |-> [index \in 1..Len(instr) |-> [number |-> index, text |-> instr[index]]]]

\* Page.getLayoutMetrics: content sizes the page can report.
ContentSizes == {[width |-> 1280, height |-> 720], [width |-> 1280, height |-> 4000]}

\* save_full_page_screenshot: the PNG written, at the full content size.
save_full_page_screenshot(metrics) ==
    [width |-> metrics.width, height |-> metrics.height]

-----------------------------------------------------------------------------
(* Control flow of main() *)

\* The lines main() prints.
MsgStarting == "Starting Google Maps route extraction..."
MsgOpening == "Opening Google Maps..."
MsgClickedDirections == "Clicked Directions."
MsgEnteredStart == "Entered starting location."
MsgEnteredDestination == "Entered destination."
MsgSelectedRoute == "Selected first available route."
MsgNoStepElements == "No step elements found after waiting. Proceeding with empty list."
MsgNoInstructions == "No step-by-step instructions were found."
MsgCaptured == "Captured {len(instructions)} instructions."
MsgSavedInstructions == "Saved instructions to driving_instructions.xlsx"
MsgSavedScreenshot == "Saved screenshot to route_screenshot.png"
MsgDone == "Done."
MsgTimedOut == "Timed out waiting for a page element. Please check selectors or network."
MsgWebDriverError == "WebDriver error: {exc}"
MsgUnexpectedError == "Unexpected error: {exc}"

\* Where the caller continues when the wait at `site` returns a value.
OnMatch(site) ==
    CASE site = "consent" -> "click_consent"
      [] site = "directions" -> "click_directions"
      [] site = "start_input" -> "type_start"
      [] site = "dest_input" -> "type_dest"
      [] site = "url" -> "route_cards"
      [] site = "route_cards" -> "click_route"
      [] site = "steps_toggle" -> "click_steps"
      [] site = "step_wait" -> "find_steps"
      [] OTHER -> "helper_returned"

\* Where main() continues after the optional click at `site`.
AfterOptional(site) == IF site = "consent" THEN "directions" ELSE "step_wait"

\* An exception leaves the try body for the handlers (or, for a helper
\* called on its own, reaches the caller).
Raise(e) ==
    /\ raised' = e
    /\ pc' = "except"

try_click_optional_except_Reraise(site) ==
    /\ tcoRet' = tcoRet
    /\ Raise("Timeout")

\* try_click_optional: the except clause.
try_click_optional_except(site) ==
    /\ tcoRet' = "False"
    /\ pc' = AfterOptional(site)
    /\ raised' = raised

OnTimeout_Swallowed(site) ==
    /\ tcoRet' = tcoRet
    /\ raised' = raised
    /\ pc' = IF Optional(site) THEN AfterOptional(site) ELSE OnMatch(site)

\* A wait ran past its deadline: WebDriverWait.until raises TimeoutException,
\* which try_click_optional catches and main() does not.
OnTimeout(site) ==
    IF Optional(site)
    THEN try_click_optional_except(site)
    ELSE Raise("Timeout") /\ tcoRet' = tcoRet

\* One poll tick of WebDriverWait.until whose callback returned r.
Until(r) ==
    /\ result' = r.value
    /\ tried' = r.tried
    /\ elapsed' = elapsed
    /\ IF r.value # <<>>
       THEN /\ wstate' = "matched"
            /\ pc' = OnMatch(wcall.site)
            /\ UNCHANGED <<raised, tcoRet>>
       ELSE IF elapsed > wcall.timeout
       THEN /\ wstate' = "timedout"
            /\ OnTimeout(wcall.site)
       ELSE /\ wstate' = "sleeping"
            /\ UNCHANGED <<pc, raised, tcoRet>>

Init ==
    /\ pc = "start"
    /\ driver = "None"
    /\ session = "none"
    /\ quits = 0
    /\ raised = "none"
    /\ handled = "none"
    /\ retval = -1
    /\ exitcode = -1
    /\ wcall = NoCall
    /\ wstate = "idle"
    /\ elapsed = 0
    /\ page = EmptyPage
    /\ result = <<>>
    /\ tried = 0
    /\ click = <<>>
    /\ tcoRet = "none"
    /\ stepWait = "none"
    /\ step_texts = <<>>
    /\ instructions = <<>>
    /\ excel = <<>>
    /\ screenshot = <<>>
    /\ console = <<MsgStarting>>

waitVars == <<wcall, wstate, elapsed, page, result, tried>>
outVars == <<stepWait, step_texts, instructions, excel, screenshot>>
endVars == <<driver, session, quits, handled, retval, exitcode>>

\* driver = webdriver.Chrome(options=options); print("Opening Google Maps...")
NewChrome ==
    /\ pc = "start"
    /\ driver' = "WebDriver"
    /\ session' = "open"
    /\ console' = Append(console, MsgOpening)
    /\ pc' = "get"
    /\ UNCHANGED <<quits, raised, handled, retval, exitcode, click, tcoRet>>
    /\ UNCHANGED waitVars
    /\ UNCHANGED outVars

\* The constructor raised: no session, `driver` stays None.
NewChromeFails ==
    /\ pc = "start"
    /\ \E e \in {"WebDriver", "Other"} : Raise(e)
    /\ UNCHANGED <<click, tcoRet, console>>
    /\ UNCHANGED waitVars
    /\ UNCHANGED outVars
    /\ UNCHANGED endVars

\* driver.get("https://maps.google.com"); a page-load timeout is a
\* TimeoutException too.
Get ==
    /\ pc = "get"
    /\ \/ pc' = "consent" /\ raised' = raised
       \/ \E e \in {"WebDriver", "Timeout"} : Raise(e)
    /\ UNCHANGED <<click, tcoRet, console>>
    /\ UNCHANGED waitVars
    /\ UNCHANGED outVars
    /\ UNCHANGED endVars

\* wait = WebDriverWait(driver, timeout): a helper (or a bare wait) starts.
BeginWait ==
    /\ pc \in WaitSites
    /\ wstate \notin {"polling", "sleeping"}
    /\ wcall' = Call(pc)
    /\ wstate' = "polling"
    /\ elapsed' = 0
    /\ page' = EmptyPage
    /\ result' = <<>>
    /\ tried' = 0
    /\ click' = <<>>
    /\ tcoRet' = "none"
    /\ UNCHANGED <<pc, raised, console>>
    /\ UNCHANGED outVars
    /\ UNCHANGED endVars

\* wait.until(_locate) of wait_for_any_element: one poll tick.
wait_for_any_element ==
    /\ wstate = "polling"
    /\ wcall.helper = "first"
    /\ \E pg \in Pages(wcall.helper, wcall.locators) :
         /\ page' = pg
         /\ Until(wait_for_any_element_locate(pg, wcall.locators))
    /\ UNCHANGED <<wcall, click, console>>
    /\ UNCHANGED outVars
    /\ UNCHANGED endVars

\* wait.until(_locate) of wait_for_any_clickable_element: one poll tick.
wait_for_any_clickable_element ==
    /\ wstate = "polling"
    /\ wcall.helper = "clickable"
    /\ \E pg \in Pages(wcall.helper, wcall.locators) :
         /\ page' = pg
         /\ Until(wait_for_any_clickable_element_locate(pg, wcall.locators))
    /\ UNCHANGED <<wcall, click, console>>
    /\ UNCHANGED outVars
    /\ UNCHANGED endVars

\* wait.until(_locate) of wait_for_any_elements: one poll tick.
wait_for_any_elements ==
    /\ wstate = "polling"
    /\ wcall.helper = "all"
    /\ \E pg \in Pages(wcall.helper, wcall.locators) :
         /\ page' = pg
         /\ Until(wait_for_any_elements_locate(pg, wcall.locators))
    /\ UNCHANGED <<wcall, click, console>>
    /\ UNCHANGED outVars
    /\ UNCHANGED endVars

\* wait.until(EC.url_contains("/dir/")): one poll tick.
WaitUrl ==
    /\ pc = "url"
    /\ wstate = "polling"
    /\ \E inDir \in BOOLEAN :
         Until([value |-> IF inDir THEN <<1>> ELSE <<>>, tried |-> 0])
    /\ UNCHANGED <<wcall, page, click, console>>
    /\ UNCHANGED outVars
    /\ UNCHANGED endVars

\* time.sleep(poll) between two ticks of WebDriverWait.until.
Sleep ==
    /\ wstate = "sleeping"
    /\ wstate' = "polling"
    /\ elapsed' = elapsed + PollStep
    /\ page' = EmptyPage
    /\ result' = <<>>
    /\ tried' = 0
    /\ UNCHANGED <<pc, raised, wcall, click, tcoRet, console>>
    /\ UNCHANGED outVars
    /\ UNCHANGED endVars

\* find_elements, is_displayed or is_enabled raised inside a poll tick:
\* until() ignores only NoSuchElementException, so the error leaves the wait
\* (and try_click_optional, which catches TimeoutException alone).
PollDriverError ==
    /\ wstate = "polling"
    /\ wstate' = "error"
    /\ Raise("WebDriver")
    /\ UNCHANGED <<wcall, elapsed, page, result, tried, click, tcoRet, console>>
    /\ UNCHANGED outVars
    /\ UNCHANGED endVars

-----------------------------------------------------------------------------
(* main(), continued *)

\* The element a statement acts on: the value its wait returned.
Target == result[1]

try_click_optional_click_Swallow(site) ==
    \/ /\ click' = <<[site |-> site, elem |-> Target, ok |-> TRUE]>>
       /\ tcoRet' = "True"
       /\ pc' = AfterOptional(site)
       /\ raised' = raised
    \/ /\ click' = <<[site |-> site, elem |-> Target, ok |-> FALSE]>>
       /\ tcoRet' = "False"
       /\ pc' = AfterOptional(site)
       /\ raised' = raised

\* try_click_optional, lines 61-62: element.click(); return True.  A click
\* that fails raises a WebDriverException, which the except clause of
\* try_click_optional does not catch.
try_click_optional_click(site) ==
    \/ /\ click' = <<[site |-> site, elem |-> Target, ok |-> TRUE]>>
       /\ tcoRet' = "True"
       /\ pc' = AfterOptional(site)
       /\ raised' = raised
    \/ /\ click' = <<[site |-> site, elem |-> Target, ok |-> FALSE]>>
       /\ tcoRet' = tcoRet
       /\ Raise("WebDriver")

\* The click inside try_click_optional for the consent dialog.
ClickConsent ==
    /\ pc = "click_consent"
    /\ try_click_optional_click("consent")
    /\ UNCHANGED console
    /\ UNCHANGED waitVars
    /\ UNCHANGED outVars
    /\ UNCHANGED endVars

\* directions_button.click(); print("Clicked Directions.")
ClickDirections ==
    /\ pc = "click_directions"
    /\ \/ /\ click' = <<[site |-> "directions", elem |-> Target, ok |-> TRUE]>>
          /\ console' = Append(console, MsgClickedDirections)
          /\ pc' = "start_input"
          /\ raised' = raised
       \/ /\ click' = <<[site |-> "directions", elem |-> Target, ok |-> FALSE]>>
          /\ Raise("WebDriver")
          /\ console' = console
    /\ UNCHANGED tcoRet
    /\ UNCHANGED waitVars
    /\ UNCHANGED outVars
    /\ UNCHANGED endVars

\* start_input.clear(); send_keys(...); send_keys(Keys.ENTER); print(...)
TypeStart ==
    /\ pc = "type_start"
    /\ \/ /\ pc' = "dest_input"
          /\ console' = Append(console, MsgEnteredStart)
          /\ raised' = raised
       \/ Raise("WebDriver") /\ console' = console
    /\ UNCHANGED <<click, tcoRet>>
    /\ UNCHANGED waitVars
    /\ UNCHANGED outVars
    /\ UNCHANGED endVars

\* destination_input.clear(); send_keys(...); send_keys(Keys.ENTER); print(...)
TypeDestination ==
    /\ pc = "type_dest"
    /\ \/ /\ pc' = "url"
          /\ console' = Append(console, MsgEnteredDestination)
          /\ raised' = raised
       \/ Raise("WebDriver") /\ console' = console
    /\ UNCHANGED <<click, tcoRet>>
    /\ UNCHANGED waitVars
    /\ UNCHANGED outVars
    /\ UNCHANGED endVars

\* if not route_cards: raise Exception(...); route_cards[0].click(); print(...)
ClickRoute ==
    /\ pc = "click_route"
    /\ IF result = <<>>
       THEN Raise("Other") /\ UNCHANGED <<click, console>>
       ELSE \/ /\ click' = <<[site |-> "route_cards", elem |-> Target, ok |-> TRUE]>>
               /\ console' = Append(console, MsgSelectedRoute)
               /\ pc' = "steps_toggle"
               /\ raised' = raised
            \/ /\ click' = <<[site |-> "route_cards", elem |-> Target, ok |-> FALSE]>>
               /\ Raise("WebDriver")
               /\ console' = console
    /\ UNCHANGED tcoRet
    /\ UNCHANGED waitVars
    /\ UNCHANGED outVars
    /\ UNCHANGED endVars

\* The click inside try_click_optional for the steps/details toggle.
ClickSteps ==
    /\ pc = "click_steps"
    /\ try_click_optional_click("steps_toggle")
    /\ UNCHANGED console
    /\ UNCHANGED waitVars
    /\ UNCHANGED outVars
    /\ UNCHANGED endVars

StepWaitExcept_Propagate ==
    /\ stepWait' = "timedout"
    /\ step_texts' = step_texts
    /\ console' = console
    /\ Raise("Timeout")

\* except TimeoutException around the step wait: print(...); step_elements = [].
StepWaitExcept ==
    /\ stepWait' = "timedout"
    /\ step_texts' = <<>>
    /\ console' = Append(console, MsgNoStepElements)
    /\ pc' = "filter"
    /\ raised' = raised

\* WebDriverWait(driver, 60).until(presence_of_all_elements_located(...)):
\* one poll tick; the condition returns the elements found, falsy when none.
WaitSteps ==
    /\ pc = "step_wait"
    /\ wstate = "polling"
    /\ \E present \in 0..MaxSteps :
         /\ result' = [i \in 1..present |-> i]
         /\ IF present > 0
            THEN /\ wstate' = "matched"
                 /\ stepWait' = "found"
                 /\ pc' = "find_steps"
                 /\ UNCHANGED <<raised, step_texts, console>>
            ELSE IF elapsed > wcall.timeout
            THEN /\ wstate' = "timedout"
                 /\ StepWaitExcept
            ELSE /\ wstate' = "sleeping"
                 /\ UNCHANGED <<pc, raised, stepWait, step_texts, console>>
    /\ UNCHANGED <<wcall, elapsed, page, tried, click, tcoRet>>
    /\ UNCHANGED <<instructions, excel, screenshot>>
    /\ UNCHANGED endVars

\* step_elements = driver.find_elements(...): the page is read again, and
\* may show other elements than the wait saw.
FindSteps ==
    /\ pc = "find_steps"
    /\ \/ \E texts \in StepInputs :
            /\ step_texts' = texts
            /\ pc' = "filter"
            /\ raised' = raised
       \/ Raise("WebDriver") /\ step_texts' = step_texts
    /\ UNCHANGED <<click, tcoRet, stepWait, instructions, excel, screenshot, console>>
    /\ UNCHANGED waitVars
    /\ UNCHANGED endVars

\* The loop of lines 188-195 and the print after it; element.text is a
\* driver call and may fail.
FilterInstructions ==
    /\ pc = "filter"
    /\ \/ /\ instructions' = CaptureInstructions(step_texts)
          /\ console' = Append(console, IF instructions' = <<>>
                                        THEN MsgNoInstructions ELSE MsgCaptured)
          /\ pc' = "export"
          /\ raised' = raised
       \/ /\ step_texts # <<>>
          /\ Raise("WebDriver")
          /\ UNCHANGED <<instructions, console>>
    /\ UNCHANGED <<click, tcoRet, stepWait, step_texts, excel, screenshot>>
    /\ UNCHANGED waitVars
    /\ UNCHANGED endVars

\* save_instructions_to_excel(instructions, ...); print(...).  workbook.save
\* may fail, and nothing is written then.
Export ==
    /\ pc = "export"
    /\ \/ /\ excel' = <<save_instructions_to_excel(instructions)>>
          /\ console' = Append(console, MsgSavedInstructions)
          /\ pc' = "screenshot"
          /\ raised' = raised
       \/ Raise("Other") /\ UNCHANGED <<excel, console>>
    /\ UNCHANGED <<click, tcoRet, stepWait, step_texts, instructions, screenshot>>
    /\ UNCHANGED waitVars
    /\ UNCHANGED endVars

\* save_full_page_screenshot(driver, ...); print(...); print("Done."); return 0
Screenshot ==
    /\ pc = "screenshot"
    /\ \/ \E metrics \in ContentSizes :
            /\ screenshot' = <<save_full_page_screenshot(metrics)>>
            /\ console' = console \o <<MsgSavedScreenshot, MsgDone>>
            /\ retval' = 0
            /\ pc' = "finally"
            /\ raised' = raised
       \/ Raise("WebDriver") /\ UNCHANGED <<screenshot, retval, console>>
    /\ UNCHANGED <<click, tcoRet, stepWait, step_texts, instructions, excel>>
    /\ UNCHANGED <<driver, session, quits, handled, exitcode>>
    /\ UNCHANGED waitVars

\* The exception classes an except clause catches (TimeoutException is a
\* WebDriverException).
Catches(clause, e) ==
    CASE clause = "TimeoutException" -> e = "Timeout"
      [] clause = "WebDriverException" -> e \in {"Timeout", "WebDriver"}
      [] clause = "Exception" -> TRUE

\* The except clauses of main(), in the order written.
Clauses == <<"TimeoutException", "WebDriverException", "Exception">>

\* The line each clause prints.
ClauseMsg(clause) ==
    CASE clause = "TimeoutException" -> MsgTimedOut
      [] clause = "WebDriverException" -> MsgWebDriverError
      [] clause = "Exception" -> MsgUnexpectedError

\* The clause that handles e: the first that catches it.
Handler(e) ==
    Clauses[CHOOSE i \in 1..Len(Clauses) :
                /\ Catches(Clauses[i], e)
                /\ \A j \in 1..(i - 1) : ~Catches(Clauses[j], e)]

Except_TimeoutOnly ==
    /\ pc = "except"
    /\ handled' = Handler(raised)
    /\ console' = Append(console, ClauseMsg(Handler(raised)))
    /\ retval' = IF raised = "Timeout" THEN 1 ELSE 0
    /\ pc' = "finally"
    /\ UNCHANGED <<driver, session, quits, exitcode, raised, click, tcoRet>>
    /\ UNCHANGED waitVars
    /\ UNCHANGED outVars

\* The handlers of main(): each prints its line and returns 1.
Except ==
    /\ pc = "except"
    /\ handled' = Handler(raised)
    /\ console' = Append(console, ClauseMsg(Handler(raised)))
    /\ retval' = 1
    /\ pc' = "finally"
    /\ UNCHANGED <<driver, session, quits, exitcode, raised, click, tcoRet>>
    /\ UNCHANGED waitVars
    /\ UNCHANGED outVars

Finally_QuitOnSuccessOnly ==
    /\ pc = "finally"
    /\ IF driver # "None" /\ retval = 0
       THEN /\ session' = "closed"
            /\ quits' = quits + 1
       ELSE UNCHANGED <<session, quits>>
    /\ pc' = "returned"
    /\ UNCHANGED <<driver, handled, retval, exitcode, raised, click, tcoRet, console>>
    /\ UNCHANGED waitVars
    /\ UNCHANGED outVars

\* finally: if driver: driver.quit()
Finally ==
    /\ pc = "finally"
    /\ IF driver # "None"
       THEN /\ session' = "closed"
            /\ quits' = quits + 1
       ELSE UNCHANGED <<session, quits>>
    /\ pc' = "returned"
    /\ UNCHANGED <<driver, handled, retval, exitcode, raised, click, tcoRet, console>>
    /\ UNCHANGED waitVars
    /\ UNCHANGED outVars

\* sys.exit(main())
SysExit ==
    /\ pc = "returned"
    /\ exitcode' = retval
    /\ pc' = "done"
    /\ UNCHANGED <<driver, session, quits, handled, retval, raised, click, tcoRet, console>>
    /\ UNCHANGED waitVars
    /\ UNCHANGED outVars

Next ==
    \/ NewChrome
    \/ NewChromeFails
    \/ Get
    \/ BeginWait
    \/ wait_for_any_element
    \/ wait_for_any_clickable_element
    \/ wait_for_any_elements
    \/ WaitUrl
    \/ Sleep
    \/ PollDriverError
    \/ ClickConsent
    \/ ClickDirections
    \/ TypeStart
    \/ TypeDestination
    \/ ClickRoute
    \/ ClickSteps
    \/ WaitSteps
    \/ FindSteps
    \/ FilterInstructions
    \/ Export
    \/ Screenshot
    \/ Except
    \/ Finally
    \/ SysExit

\* A run of main().
Spec == Init /\ [][Next]_vars

\* A wait helper called on its own, with any candidate list of up to
\* MaxLocators locators and the default timeout.
HelperInit ==
    /\ pc = "helper"
    /\ driver = "WebDriver"
    /\ session = "open"
    /\ quits = 0
    /\ raised = "none"
    /\ handled = "none"
    /\ retval = -1
    /\ exitcode = -1
    /\ wcall \in [site : {"helper"}, helper : {"first", "clickable", "all"},
                  locators : 1..MaxLocators, timeout : {DefaultTimeout}]
    /\ wstate = "polling"
    /\ elapsed = 0
    /\ page = EmptyPage
    /\ result = <<>>
    /\ tried = 0
    /\ click = <<>>
    /\ tcoRet = "none"
    /\ stepWait = "none"
    /\ step_texts = <<>>
    /\ instructions = <<>>
    /\ excel = <<>>
    /\ screenshot = <<>>
    /\ console = <<>>

HelperNext ==
    \/ wait_for_any_element
    \/ wait_for_any_clickable_element
    \/ wait_for_any_elements
    \/ Sleep
    \/ PollDriverError

HelperSpec == HelperInit /\ [][HelperNext]_vars

-----------------------------------------------------------------------------
(* Properties *)

Range(seq) == {seq[i] : i \in 1..Len(seq)}

\* The first candidate, in list order, with any match on the page; 0 if none.
FirstWithAnyMatch(pg, n) ==
    IF \E i \in 1..n : pg.matches[i] # <<>>
    THEN CHOOSE i \in 1..n :
            /\ pg.matches[i] # <<>>
            /\ \A j \in 1..(i - 1) : pg.matches[j] = <<>>
    ELSE 0

\* The elements candidate i matches that are visible and enabled.
UsableOf(pg, i) ==
    {e \in Range(pg.matches[i]) : e \in pg.displayed /\ e \in pg.enabled}

\* The first candidate, in list order, with a visible and enabled match; 0 if none.
FirstWithUsable(pg, n) ==
    IF \E i \in 1..n : UsableOf(pg, i) # {}
    THEN CHOOSE i \in 1..n :
            /\ UsableOf(pg, i) # {}
            /\ \A j \in 1..(i - 1) : UsableOf(pg, j) = {}
    ELSE 0

\* A poll tick has been evaluated and its outcome is in the state.
Ticked == wstate \in {"matched", "sleeping", "timedout"}

AfterTry == {"except", "finally", "returned", "done"}

\* C1: on every exit path of main() taken after the browser session was
\* acquired, driver.quit() is called exactly once, in the finally block and
\* before main() returns its exit code; the session is never closed twice or
\* early, and no run ends with an acquired session still open.
C1_SessionClosedExactlyOnce ==
    /\ quits \in {0, 1}
    /\ (session = "closed") <=> (quits = 1)
    /\ (session = "open") <=> (driver = "WebDriver" /\ pc \notin {"returned", "done"})
    /\ pc \in {"returned", "done"} =>
          /\ driver = "WebDriver" => session = "closed" /\ quits = 1
          /\ driver = "None" => session = "none" /\ quits = 0
    /\ exitcode # -1 => session # "open"

C1_Witness ==
    /\ pc = "done"
    /\ session = "closed"
    /\ quits = 1
    /\ handled = "WebDriverException"

\* The progress lines of the steps main() cannot skip.
RequiredLines ==
    <<MsgStarting, MsgOpening, MsgClickedDirections, MsgEnteredStart,
      MsgEnteredDestination, MsgSelectedRoute, MsgSavedInstructions,
      MsgSavedScreenshot, MsgDone>>

IsRequiredLine(line) == line \in Range(RequiredLines)

\* C2: the exit code is 0 exactly when every required step, the spreadsheet
\* write and the screenshot completed (also with zero instructions), it is 1
\* whenever a timeout, a driver error or any other error reached main's
\* handlers, and no other exit code is produced.
C2_ExitCode ==
    /\ exitcode \in {-1, 0, 1}
    /\ (pc = "done") <=> (exitcode # -1)
    /\ exitcode = 0 =>
          /\ raised = "none"
          /\ handled = "none"
          /\ SelectSeq(console, IsRequiredLine) = RequiredLines
          /\ excel # <<>>
          /\ screenshot # <<>>
    /\ exitcode = 1 =>
          /\ raised \in {"Timeout", "WebDriver", "Other"}
          /\ MsgDone \notin Range(console)
          /\ screenshot = <<>>
    /\ pc = "done" /\ raised = "none" => exitcode = 0
    /\ pc = "done" /\ raised # "none" => exitcode = 1

C2_Witness ==
    /\ exitcode = 0
    /\ instructions = <<>>
    /\ stepWait = "found"

\* C3: on the tick where wait_for_any_element or wait_for_any_elements
\* returns, with N the first candidate in list order that has any match, no
\* candidate after N was queried, wait_for_any_element returns the first
\* element of candidate N's matches and wait_for_any_elements returns exactly
\* candidate N's non-empty match list.
C3_FirstMatchingCandidate ==
    (wstate = "matched" /\ wcall.helper \in {"first", "all"}) =>
        LET N == FirstWithAnyMatch(page, wcall.locators)
        IN /\ N > 0
           /\ tried = N
           /\ wcall.helper = "first" => result = <<page.matches[N][1]>>
           /\ wcall.helper = "all" => result = page.matches[N] /\ result # <<>>

C3_Witness ==
    /\ wstate = "matched"
    /\ wcall.helper = "all"
    /\ wcall.locators >= 3
    /\ tried = 2
    /\ Len(result) = 2
    /\ page.matches[3] \notin {<<>>, result}

\* C4: wait_for_any_clickable_element returns only an element that a
\* candidate matched and that was visible and enabled on the tick of the
\* return; a tick on which no matched element is visible and enabled returns
\* nothing, and polling goes on until such a tick lies past the deadline,
\* where the wait ends with a TimeoutException and no element.
C4_ClickableOnly ==
    wcall.helper = "clickable" =>
        /\ wstate = "matched" =>
              /\ Len(result) = 1
              /\ result[1] \in page.displayed
              /\ result[1] \in page.enabled
              /\ \E i \in 1..wcall.locators : result[1] \in Range(page.matches[i])
              /\ raised = "none"
              /\ pc = "helper_returned"
        /\ wstate = "sleeping" =>
              /\ result = <<>>
              /\ \A i \in 1..wcall.locators : UsableOf(page, i) = {}
              /\ elapsed <= wcall.timeout
              /\ raised = "none"
              /\ pc = "helper"
        /\ wstate = "timedout" =>
              /\ result = <<>>
              /\ \A i \in 1..wcall.locators : UsableOf(page, i) = {}
              /\ elapsed > wcall.timeout
              /\ raised = "Timeout"
        /\ raised = "Timeout" => wstate = "timedout"

C4_Witness ==
    /\ wcall.helper = "clickable"
    /\ wstate = "timedout"
    /\ page.matches[1] # <<>>
    /\ page.displayed # {}

\* C5: try_click_optional returns False, with no click issued and no error
\* raised, when its wait timed out; it returns True only after a click was
\* issued on the element wait_for_any_clickable_element returned; the
\* timeout of its wait never reaches main's handlers.
C5_TryClickOptional ==
    /\ tcoRet = "False" =>
          /\ Optional(wcall.site)
          /\ wstate = "timedout"
          /\ click = <<>>
          /\ raised = "none"
          /\ pc = AfterOptional(wcall.site)
    /\ tcoRet = "True" =>
          /\ Optional(wcall.site)
          /\ wstate = "matched"
          /\ click = <<[site |-> wcall.site, elem |-> result[1], ok |-> TRUE]>>
          /\ result[1] \in page.displayed \cap page.enabled
          /\ raised = "none"
          /\ pc = AfterOptional(wcall.site)
    /\ (Optional(wcall.site) /\ wstate = "timedout") =>
          /\ tcoRet = "False"
          /\ raised = "none"
          /\ handled = "none"

C5_Witness ==
    /\ tcoRet = "False"
    /\ wcall.site = "steps_toggle"
    /\ page.matches[1] # <<>>
    /\ pc = "step_wait"

\* The waits of main() for elements it cannot go on without.
RequiredSites == {"directions", "start_input", "dest_input", "url", "route_cards"}

\* C6: when the route-card wait, or any required wait before the step
\* extraction, times out, the TimeoutException goes to main's handlers, the
\* run ends with exit code 1, and neither the spreadsheet nor the screenshot
\* is written.
C6_RequiredWaitTimeoutIsFatal ==
    (wstate = "timedout" /\ wcall.site \in RequiredSites) =>
        /\ raised = "Timeout"
        /\ pc \in AfterTry
        /\ pc # "except" => handled = "TimeoutException" /\ retval = 1
        /\ pc = "done" => exitcode = 1
        /\ excel = <<>>
        /\ screenshot = <<>>

C6_Witness ==
    /\ pc = "done"
    /\ wcall.site = "route_cards"
    /\ wstate = "timedout"
    /\ exitcode = 1

\* A workbook holding the header row alone.
HeaderOnlyWorkbook ==
    [title |-> "Driving Instructions",
     header |-> <<"Step Number", "Instruction Text">>,
     rows |-> <<>>]

\* C7: when the step wait times out, the timeout is swallowed (it never
\* reaches main's handlers), the instruction sequence is empty, and main()
\* goes on to the export: the spreadsheet it writes holds the header row
\* alone, the screenshot follows, and the run ends with exit code 0; only a
\* failure of the spreadsheet save or of the screenshot itself ends it with 1.
C7_StepTimeoutDegrades ==
    stepWait = "timedout" =>
        /\ step_texts = <<>>
        /\ instructions = <<>>
        /\ raised # "Timeout"
        /\ handled # "TimeoutException"
        /\ pc \in {"filter", "export", "screenshot"} \cup AfterTry
        /\ excel \in {<<>>, <<HeaderOnlyWorkbook>>}
        /\ pc = "screenshot" => excel = <<HeaderOnlyWorkbook>>
        /\ (pc = "done" /\ raised = "none") =>
              /\ exitcode = 0
              /\ excel = <<HeaderOnlyWorkbook>>
              /\ screenshot # <<>>
        /\ raised # "none" =>
              \/ raised = "Other" /\ excel = <<>> /\ screenshot = <<>>
              \/ raised = "WebDriver" /\ excel # <<>> /\ screenshot = <<>>

C7_Witness ==
    /\ pc = "done"
    /\ stepWait = "timedout"
    /\ exitcode = 0
    /\ excel = <<HeaderOnlyWorkbook>>
    /\ screenshot # <<>>

\* Reference values for the sample texts: the text with surrounding
\* whitespace removed, and whether that is empty or one of the two labels
\* in any letter case.
TextStepsUpper ==
    <<"S", "T", "E", "P", "S">>

RefStripped(t) ==
    CASE t = TextBlank -> <<>>
      [] t = TextStepsPadded -> TextStepsUpper
      [] t = TextTurnPadded -> TextTurnLeft
      [] OTHER -> t

RefKept(t) ==
    RefStripped(t) \notin {<<>>, TextDirections, TextSteps, TextStepsUpper}

ExpectedInstructions(texts) ==
    LET kept == SelectSeq(texts, RefKept)
    IN [i \in 1..Len(kept) |-> RefStripped(kept[i])]

\* C8: the captured instructions are exactly the whitespace-stripped step
\* texts, in their original order, that are non-empty and are not
\* "directions" or "steps" in any letter case; the example of the
\* specification yields <<"Turn left", "Continue straight">>.
C8_InstructionFiltering ==
    (pc \in {"export", "screenshot"} \/ excel # <<>>) =>
        /\ instructions = ExpectedInstructions(step_texts)
        /\ step_texts = ExampleTexts => instructions = <<TextTurnLeft, TextContinue>>

C8_Witness ==
    /\ pc = "export"
    /\ step_texts = ExampleTexts
    /\ instructions = <<TextTurnLeft, TextContinue>>

\* C9 as claimed: in every locate operation, once a candidate has matched
\* any element on a tick, no later candidate is queried or returned from on
\* that tick, even if the matched element is unusable.
C9_FirstAnyMatchWinsEverywhere ==
    (Ticked /\ FirstWithAnyMatch(page, wcall.locators) > 0) =>
        /\ tried = FirstWithAnyMatch(page, wcall.locators)
        /\ result # <<>> =>
              result[1] \in Range(page.matches[FirstWithAnyMatch(page, wcall.locators)])

\* C9 amended: in wait_for_any_element and wait_for_any_elements the first
\* candidate with any match wins and no later candidate is queried on that
\* tick; in wait_for_any_clickable_element the first candidate with a visible
\* and enabled match wins: candidates whose matches are all unusable are
\* passed over, later candidates are queried on the same tick, and when no
\* candidate has a usable match every candidate was queried.
C9_FirstUsableMatchWins ==
    Ticked =>
        LET n == wcall.locators
            W == IF wcall.helper = "clickable"
                 THEN FirstWithUsable(page, n)
                 ELSE FirstWithAnyMatch(page, n)
        IN IF W > 0
           THEN /\ wstate = "matched"
                /\ tried = W
                /\ result[1] \in Range(page.matches[W])
                /\ wcall.helper = "clickable" => result[1] \in UsableOf(page, W)
           ELSE /\ wstate # "matched"
                /\ tried = n
                /\ result = <<>>

C9_Witness ==
    /\ wcall.helper = "clickable"
    /\ wstate = "matched"
    /\ page.matches[1] # <<>>
    /\ tried = 2
    /\ result[1] \notin Range(page.matches[1])

\* C10: when the click inside try_click_optional fails, the error is not
\* swallowed: try_click_optional returns nothing, the WebDriverException
\* reaches main's handlers, the run ends with exit code 1, no spreadsheet or
\* screenshot is written, and the browser is still closed.
C10_OptionalClickErrorPropagates ==
    (click # <<>> /\ Optional(click[1].site) /\ ~click[1].ok) =>
        /\ raised = "WebDriver"
        /\ tcoRet = "none"
        /\ pc \in AfterTry
        /\ pc # "except" => handled = "WebDriverException" /\ retval = 1
        /\ pc \in {"returned", "done"} => session = "closed" /\ quits = 1
        /\ pc = "done" => exitcode = 1
        /\ excel = <<>>
        /\ screenshot = <<>>

C10_Witness ==
    /\ pc = "done"
    /\ click # <<>>
    /\ click[1].site = "consent"
    /\ ~click[1].ok
    /\ exitcode = 1
    /\ session = "closed"

====
